---- MODULE Spec2Model ----
(***************************************************************************)
(* AliasTable.hpp: BuildAliasTable (Vose's alias method with a min-heap    *)
(* and a max-heap as worklists) and SampleAliasTable.                      *)
(*                                                                         *)
(* Arithmetic.  BuildAliasTable is modelled for a value type T that        *)
(* computes exactly: every value of type T it handles is kept as an        *)
(* integer number of units of 1/Den, so T(1) is the integer Den.           *)
(* SampleAliasTable is modelled for such a T and for a floating-point T,   *)
(* its values being rationals.  The index type TIndex is an unsigned       *)
(* integer of IndexBits bits and int is its signed counterpart.            *)
(*                                                                         *)
(* Spec: a behaviour is one call of BuildAliasTable followed by one call   *)
(* of SampleAliasTable on the table it built.  SampleAliasTable reads the  *)
(* table and writes nothing, so every later call is one of these calls.    *)
(* TestSpec: a behaviour is one call of SampleAliasTable on free           *)
(* arguments.                                                              *)
(***************************************************************************)
EXTENDS Integers, FiniteSets, Sequences

VARIABLES
    pc,             \* position in BuildAliasTable, "done" after its return,
                    \* "sampled" after SampleAliasTable returned
    n,              \* [in]  number of values
    probabilities,  \* [in]  probability mass function, units of 1/Den
    tableProbs,     \* [out] written prefix of the buffer, units of 1/Den
    tableAliases,   \* [out] written prefix of the buffer
    small,          \* min-heap worklist (the indices it holds)
    large,          \* max-heap worklist (the indices it holds)
    i,              \* loop counter of the first loop
    popped,         \* << >> or <<s, l>> of the latest pairing iteration
    iters,          \* number of pairing iterations executed so far
    call            \* << >> or <<r>>, r the latest SampleAliasTable call

vars == <<pc, n, probabilities, tableProbs, tableAliases, small, large, i,
          popped, iters, call>>

(***************************************************************************)
(* Bounds of the model.                                                    *)
(***************************************************************************)
MaxN == 6        \* n ranges over 1..MaxN (and stays below the sentinel)
Den == 4         \* probabilities are multiples of 1/Den
IndexBits == 3   \* width of TIndex and of int

(***************************************************************************)
(* The integer types.                                                      *)
(***************************************************************************)
RECURSIVE Pow2(_)
Pow2(k) == IF k = 0 THEN 1 ELSE 2 * Pow2(k - 1)

IndexModulus == Pow2(IndexBits)
\* ~TIndex(0)
Sentinel == IndexModulus - 1
IntMax == Pow2(IndexBits - 1) - 1
IntMin == 0 - Pow2(IndexBits - 1)

\* conversion of an int to TIndex (the usual arithmetic conversions)
ToIndex(c) == c % IndexModulus

\* T(1)
One == Den

RECURSIVE SumOver(_, _)
SumOver(f, S) ==
    IF S = {} THEN 0
    ELSE LET x == CHOOSE y \in S : TRUE
         IN  f[x] + SumOver(f, S \ {x})

\* the inputs: m values, each >= 0, that sum to 1 (a valid PMF) or miss 1
\* by one unit (the drift of a sum that is 1 only up to rounding)
Inputs(m) ==
    { p \in [0 .. m - 1 -> 0 .. Den + 1] :
        /\ SumOver(p, 0 .. m - 1) >= Den - 1
        /\ SumOver(p, 0 .. m - 1) <= Den + 1 }

ValidPMF == SumOver(probabilities, 0 .. n - 1) = Den

(***************************************************************************)
(* The worklists.                                                          *)
(***************************************************************************)
WorklistEntryLess(lhs, rhs) == tableProbs[lhs] < tableProbs[rhs]

\* the comparison the wrong way round
WorklistEntryGreaterSwapped(lhs, rhs) == tableProbs[lhs] < tableProbs[rhs]

WorklistEntryGreater(lhs, rhs) == tableProbs[lhs] > tableProbs[rhs]

\* std::priority_queue<..., Compare>::top() is an element that Compare
\* orders before no other element of the heap; which one among equivalent
\* elements is up to the heap's layout.
\* the candidates for small.top(), small being a Heap<TIndex,
\* WorklistEntryGreater>
SmallTops ==
    { x \in small : \A y \in small : ~WorklistEntryGreater(x, y) }

\* the candidates for large.top(), large being a Heap<TIndex,
\* WorklistEntryLess>
LargeTops ==
    { x \in large : \A y \in large : ~WorklistEntryLess(x, y) }

HeapPush(heap, x) == heap \cup {x}

\* a pop that leaves the element in the heap
HeapPopKeep(heap, x) == heap

HeapPop(heap, x) == heap \ {x}

\* a[k] = v on a buffer whose written part is a
Store(a, k, v) ==
    [ j \in (DOMAIN a) \cup {k} |-> IF j = k THEN v ELSE a[j] ]

\* probabilities[i] without the scaling by n
Unscaled(p) == p

\* probabilities[i] * n
Scaled(p) == p * n

\* tableProbs[l] - (T(1) - tableProbs[s]) with its parentheses dropped
TransferNoParens(pl, ps) == pl - One - ps

\* the new value of tableProbs[l], from pl = tableProbs[l] and
\* ps = tableProbs[s]
Transfer(pl, ps) == (pl + ps) - One

Init ==
    /\ pc = "fill"
    /\ n \in { m \in 1 .. MaxN : m < Sentinel }
    /\ probabilities \in Inputs(n)
    /\ tableProbs = << >>
    /\ tableAliases = << >>
    /\ small = {}
    /\ large = {}
    /\ i = 0
    /\ popped = << >>
    /\ iters = 0
    /\ call = << >>

(***************************************************************************)
(* BuildAliasTable                                                         *)
(***************************************************************************)
FillLoop ==
    /\ pc = "fill"
    /\ IF i < n
       THEN LET v == Scaled(probabilities[i])
            IN  /\ tableAliases' = Store(tableAliases, i, Sentinel)
                /\ tableProbs' = Store(tableProbs, i, v)
                /\ IF v < One
                   THEN small' = HeapPush(small, i) /\ large' = large
                   ELSE large' = HeapPush(large, i) /\ small' = small
                /\ i' = i + 1
                /\ pc' = pc
       ELSE /\ pc' = "pair"
            /\ UNCHANGED <<tableAliases, tableProbs, small, large, i>>
    /\ UNCHANGED <<n, probabilities, popped, iters, call>>

PairLoop ==
    /\ pc = "pair"
    /\ IF small # {} /\ large # {}
       THEN \E s \in SmallTops :
            \E l \in LargeTops :
                LET v == Transfer(tableProbs[l], tableProbs[s])
                IN  /\ tableAliases' = Store(tableAliases, s, l)
                    /\ tableProbs' = Store(tableProbs, l, v)
                    /\ IF v < One
                       THEN /\ small' = HeapPush(HeapPop(small, s), l)
                            /\ large' = HeapPop(large, l)
                       ELSE /\ small' = HeapPop(small, s)
                            /\ large' = HeapPush(HeapPop(large, l), l)
                    /\ popped' = <<s, l>>
                    /\ iters' = iters + 1
                    /\ pc' = pc
       ELSE /\ pc' = "drainSmall"
            /\ UNCHANGED <<tableAliases, tableProbs, small, large, popped,
                           iters>>
    /\ UNCHANGED <<n, probabilities, i, call>>

DrainSmallLoop ==
    /\ pc = "drainSmall"
    /\ IF small # {}
       THEN \E t \in SmallTops :
                /\ tableProbs' = Store(tableProbs, t, One)
                /\ small' = HeapPop(small, t)
                /\ pc' = pc
       ELSE /\ pc' = "drainLarge"
            /\ UNCHANGED <<tableProbs, small>>
    /\ UNCHANGED <<n, probabilities, tableAliases, large, i, popped, iters,
                   call>>

\* the last loop popping without storing T(1)
DrainLargeLoopNoStore ==
    /\ pc = "drainLarge"
    /\ IF large # {}
       THEN \E t \in LargeTops :
                /\ tableProbs' = tableProbs
                /\ large' = HeapPop(large, t)
                /\ pc' = pc
       ELSE /\ pc' = "done"
            /\ UNCHANGED <<tableProbs, large>>
    /\ UNCHANGED <<n, probabilities, tableAliases, small, i, popped, iters,
                   call>>

DrainLargeLoop ==
    /\ pc = "drainLarge"
    /\ IF large # {}
       THEN \E t \in LargeTops :
                /\ tableProbs' = Store(tableProbs, t, One)
                /\ large' = HeapPop(large, t)
                /\ pc' = pc
       ELSE /\ pc' = "done"
            /\ UNCHANGED <<tableProbs, large>>
    /\ UNCHANGED <<n, probabilities, tableAliases, small, i, popped, iters,
                   call>>

BuildAliasTable == FillLoop \/ PairLoop \/ DrainSmallLoop \/ DrainLargeLoop

(***************************************************************************)
(* The value type T in SampleAliasTable.  A value is a rational <<a, b>>,  *)
(* b > 0.  T is "exact" (every operation yields its exact result) or       *)
(* "float": binary floating point with MantBits bits of precision, round   *)
(* to nearest even, whose least positive value is 2^-QuantBits.            *)
(***************************************************************************)
MantBits == 4
QuantBits == 5

Types == {"exact", "float"}

RatLess(v, w) == v[1] * w[2] < w[1] * v[2]

RatAdd(v, w) == <<v[1] * w[2] + w[1] * v[2], v[2] * w[2]>>

RatSub(v, w) == <<v[1] * w[2] - w[1] * v[2], v[2] * w[2]>>

RatMul(v, w) == <<v[1] * w[1], v[2] * w[2]>>

\* v / w for w > 0
RatDiv(v, w) == <<v[1] * w[2], v[2] * w[1]>>

\* floor of v
RatFloor(v) == v[1] \div v[2]

\* the nearest floating-point value to the rational v, ties to the even
\* mantissa
RoundFloat(v) ==
    LET quantum == Pow2(QuantBits)
        mag == IF v[1] < 0 THEN 0 - v[1] ELSE v[1]
        \* |v| is num / den quanta
        num == mag * quantum
        den == v[2]
        \* the exponent: the least k with |v| < 2^(MantBits + k) quanta
        k == CHOOSE e \in 0 .. 2 * IndexBits + QuantBits :
                /\ num < den * Pow2(MantBits + e)
                /\ \A d \in 0 .. e - 1 : num >= den * Pow2(MantBits + d)
        ulp == den * Pow2(k)
        q == num \div ulp
        r == num % ulp
        m == IF 2 * r > ulp \/ (2 * r = ulp /\ q % 2 = 1) THEN q + 1 ELSE q
    IN  <<(IF v[1] < 0 THEN 0 - m ELSE m) * Pow2(k), quantum>>

\* the result of an operation of type T whose exact result is v
Round(T, v) == IF T = "exact" THEN v ELSE RoundFloat(v)

\* conversion of a TIndex to T
FromIndex(T, k) == Round(T, <<k, 1>>)

\* the floating-point values in [0, 1]
Floats01 ==
    { <<a, Pow2(QuantBits)>> : a \in
        { a \in 0 .. Pow2(QuantBits) :
            RoundFloat(<<a, Pow2(QuantBits)>>)[1] = a } }

(***************************************************************************)
(* SampleAliasTable                                                        *)
(***************************************************************************)
\* nx = n * x
ScaledU(T, m, x) == Round(T, RatMul(FromIndex(T, m), x))

\* the values static_cast<int>(nx) may produce: the truncated value when it
\* fits an int; otherwise the conversion is undefined and the build decides
\* (the same value for both occurrences of the expression)
CastToInt(nx) ==
    IF RatFloor(nx) <= IntMax THEN {RatFloor(nx)} ELSE IntMin .. IntMax

\* i - nx in place of nx - i
RemainderSwapped(T, nx, idx) == Round(T, RatSub(FromIndex(T, idx), nx))

\* y = nx - i
Remainder(T, nx, idx) == Round(T, RatSub(nx, FromIndex(T, idx)))

\* SampleAliasTable<T, TIndex>(urand01, tProbs, tAliases, m), c being the
\* value of static_cast<int>(nx)
SampleAliasTable(T, urand01, c, tProbs, tAliases, m) ==
    LET x == urand01
        nx == ScaledU(T, m, x)
        idx == IF ToIndex(c) < m THEN ToIndex(c) ELSE m - 1
        y == Remainder(T, nx, idx)
        Ui == tProbs[idx]
    IN  [ T |-> T, urand01 |-> urand01, c |-> c, nx |-> nx, i |-> idx,
          y |-> y, Ui |-> Ui,
          ret |-> IF RatLess(y, Ui) THEN idx ELSE tAliases[idx] ]

\* the alternative version in the comment at the end of SampleAliasTable:
\* Vi = (Ui + i) / n, and the test is x < Vi
SquareHistogram(T, urand01, c, tProbs, tAliases, m) ==
    LET x == urand01
        nx == ScaledU(T, m, x)
        idx == IF ToIndex(c) < m THEN ToIndex(c) ELSE m - 1
        Ui == tProbs[idx]
        Vi == Round(T, RatDiv(Round(T, RatAdd(Ui, FromIndex(T, idx))),
                              FromIndex(T, m)))
    IN  [ T |-> T, urand01 |-> urand01, c |-> c, nx |-> nx, i |-> idx,
          Vi |-> Vi, Ui |-> Ui,
          ret |-> IF RatLess(x, Vi) THEN idx ELSE tAliases[idx] ]

\* the table BuildAliasTable wrote, its tableProbs as values of type T
BuiltProbs == [ k \in DOMAIN tableProbs |-> <<tableProbs[k], One>> ]

\* urand01 ranges over the multiples of 1/(n * Den) in [0, 1): the
\* boundaries of the slots and the cutoffs of a built table are among them
Urand01s == { <<a, n * Den>> : a \in 0 .. n * Den - 1 }

\* a call of SampleAliasTable on the table built, T computing exactly
Sample ==
    /\ pc = "done"
    /\ \E urand01 \in Urand01s :
       \E c \in CastToInt(ScaledU("exact", n, urand01)) :
           call' = << SampleAliasTable("exact", urand01, c, BuiltProbs,
                                       tableAliases, n) >>
    /\ pc' = "sampled"
    /\ UNCHANGED <<n, probabilities, tableProbs, tableAliases, small,
                   large, i, popped, iters>>

Next == FillLoop \/ PairLoop \/ DrainSmallLoop \/ DrainLargeLoop \/ Sample

Spec == Init /\ [][Next]_vars

\* BuildAliasTable is straight-line sequential code: once called it keeps
\* executing until it returns.
FairSpec == Spec /\ WF_vars(BuildAliasTable)

(***************************************************************************)
(* SampleAliasTable as a function of its arguments: a call for either T,   *)
(* any n, any floating-point urand01 in [0, 1) and a table of n slots      *)
(* whose cutoff is any floating-point Ui in [0, 1].                        *)
(***************************************************************************)
InitTest ==
    /\ pc = "test"
    /\ n \in { m \in 1 .. MaxN : m < Sentinel }
    /\ probabilities = << >>
    /\ tableProbs = << >>
    /\ tableAliases = << >>
    /\ small = {}
    /\ large = {}
    /\ i = 0
    /\ popped = << >>
    /\ iters = 0
    /\ call = << >>

TestCall ==
    /\ pc = "test"
    /\ \E T \in Types :
       \E urand01 \in { v \in Floats01 : RatLess(v, <<1, 1>>) } :
       \E Ui \in Floats01 :
       \E c \in CastToInt(ScaledU(T, n, urand01)) :
           call' = << SampleAliasTable(T, urand01, c,
                                       [ k \in 0 .. n - 1 |-> Ui ],
                                       [ k \in 0 .. n - 1 |-> Sentinel ],
                                       n) >>
    /\ pc' = "tested"
    /\ UNCHANGED <<n, probabilities, tableProbs, tableAliases, small,
                   large, i, popped, iters>>

NextTest == TestCall

TestSpec == InitTest /\ [][NextTest]_vars

(***************************************************************************)
(* Properties.                                                             *)
(***************************************************************************)
\* BuildAliasTable has just returned
Built == pc = "done"

Returned == pc \in {"done", "sampled"}

Slots == 0 .. n - 1

Aliased == { j \in DOMAIN tableAliases : tableAliases[j] # Sentinel }

\* the mass 1 - tableProbs[j] that the slots aliased to k route to k
AliasMass(k) ==
    LET from == { j \in Aliased : tableAliases[j] = k }
    IN  Cardinality(from) * One - SumOver(tableProbs, from)

\* whether static_cast<int>(n * urand01) is defined for every urand01
CastDefined == n - 1 <= IntMax

\* the number of urand01 of the grid for which the call returns k
Returns(k) ==
    Cardinality({ u \in Urand01s :
                    \A c \in CastToInt(ScaledU("exact", n, u)) :
                        SampleAliasTable("exact", u, c, BuiltProbs,
                                         tableAliases, n).ret = k })

C2_MeanIsOne ==
    (Built /\ ValidPMF) => SumOver(tableProbs, Slots) = n * One

\* C2 as amended: after BuildAliasTable on a valid PMF the mean of tableProbs
\* is at most 1; it falls short of 1 by the mean of the mass (1 -
\* tableProbs[j]) of the aliased slots j, and it is 1 exactly when the PMF is
\* uniform (no slot has an alias).
C2_MeanAtMostOne ==
    (Built /\ ValidPMF) =>
        /\ SumOver(tableProbs, Slots) <= n * One
        /\ SumOver(tableProbs, Slots)
             = n * One - (Cardinality(Aliased) * One
                            - SumOver(tableProbs, Aliased))
        /\ (SumOver(tableProbs, Slots) = n * One)
             <=> (\A k \in Slots : probabilities[k] * n = One)
        /\ (SumOver(tableProbs, Slots) = n * One) <=> (Aliased = {})

C2_Witness ==
    /\ Built /\ ValidPMF
    /\ Aliased # {}
    /\ SumOver(tableProbs, Slots) < n * One

\* C3: after BuildAliasTable on a valid PMF every tableProbs[i] is in [0, 1]
\* and every tableAliases[i] is the sentinel or an index in [0, n).
C3_Range ==
    (Built /\ ValidPMF) =>
        /\ DOMAIN tableProbs = Slots
        /\ DOMAIN tableAliases = Slots
        /\ \A k \in Slots :
              /\ 0 <= tableProbs[k] /\ tableProbs[k] <= One
              /\ tableAliases[k] = Sentinel \/ tableAliases[k] \in Slots

C3_Witness ==
    /\ Built /\ ValidPMF
    /\ \E j, k \in Slots :
          /\ tableAliases[j] = Sentinel /\ tableAliases[k] \in Slots
          /\ tableProbs[k] = 0

\* C4: after BuildAliasTable returns, a slot whose alias is the sentinel has
\* tableProbs 1; a slot that got an alias was popped from the small worklist
\* and is in no worklist ever after.
C4_NoAliasImpliesFullMass ==
    /\ \A j \in Aliased : j \notin small \cup large
    /\ Built =>
          \A k \in Slots : tableAliases[k] = Sentinel => tableProbs[k] = One

C4_Witness ==
    /\ Built
    /\ \E j, k \in Slots : j \in Aliased /\ tableAliases[k] = Sentinel
    /\ \E k \in Slots : tableAliases[k] = Sentinel
                            /\ probabilities[k] * n # One

\* C5: on a table built from a valid PMF, for every urand01 in [0, 1),
\* SampleAliasTable returns an index in [0, n), never the sentinel.
C5_Witness ==
    /\ pc = "sampled" /\ ValidPMF
    /\ call[1].ret # call[1].i

C5_SampleReturnsIndex ==
    (pc = "sampled" /\ ValidPMF) =>
        /\ call[1].ret \in Slots
        /\ call[1].ret # Sentinel

\* whether, on the latest call of TestSpec (a table whose slots all have the
\* cutoff Ui and no alias), the two versions of the test agree and the two
\* versions of the function return the same index
VersionsAgree ==
    LET r == call[1]
        a == SquareHistogram(r.T, r.urand01, r.c,
                             [ k \in 0 .. n - 1 |-> r.Ui ],
                             [ k \in 0 .. n - 1 |-> Sentinel ], n)
    IN  /\ a.i = r.i
        /\ RatLess(r.y, r.Ui) <=> RatLess(r.urand01, a.Vi)
        /\ a.ret = r.ret

\* C6 as stated: for every n, urand01 and cutoff the test of the square
\* histogram version, x < (Ui + i) / n, holds exactly when the implemented
\* test y < Ui holds, and both versions return the same index.
C6_SquareHistogramEquivalent == pc = "tested" => VersionsAgree

\* C6 as amended: when T computes exactly, the test x < (Ui + i) / n holds
\* exactly when y < Ui holds, and both versions return the same index.
C6_EquivalentWhenExact ==
    (pc = "tested" /\ call[1].T = "exact") => VersionsAgree

C6_Witness ==
    /\ pc = "tested"
    /\ call[1].T = "exact"
    /\ call[1].i > 0
    /\ RatLess(<<0, 1>>, call[1].y)
    /\ RatLess(call[1].Ui, <<1, 1>>)
    /\ call[1].ret # call[1].i

\* C7: every iteration of the pairing loop pops an s whose tableProbs is the
\* minimum over the small worklist and an l whose tableProbs is the maximum
\* over the large worklist; and while the worklists are being filled and
\* paired, no tableProbs[x] is written for an x that is in a worklist, other
\* than the popped l.
C7_PopsExtremes ==
    [][ /\ (pc = "pair" /\ small # {} /\ large # {}) =>
              /\ Len(popped') = 2
              /\ popped'[1] \in small
              /\ \A x \in small : tableProbs[popped'[1]] <= tableProbs[x]
              /\ popped'[2] \in large
              /\ \A x \in large : tableProbs[popped'[2]] >= tableProbs[x]
              /\ \A x \in (small \cup large) \ {popped'[2]} :
                    tableProbs'[x] = tableProbs[x]
        /\ pc = "fill" =>
              \A x \in small \cup large : tableProbs'[x] = tableProbs[x]
      ]_vars

C7_Witness ==
    /\ pc = "pair" /\ iters >= 2
    /\ popped[2] \in small
    /\ \E x, y \in small : tableProbs[x] < tableProbs[y]
    /\ large # {}

\* C8: BuildAliasTable returns; every iteration of the pairing loop removes
\* s from the worklists for good and puts l back, so the worklists together
\* lose one index per iteration; the pairing loop runs at most n - 1 times;
\* and the worklists are empty at the return.
C8_Terminates ==
    /\ <>Returned
    /\ [][ (pc = "pair" /\ small # {} /\ large # {}) =>
              /\ Cardinality(small' \cup large')
                   = Cardinality(small \cup large) - 1
              /\ popped'[1] \notin small' \cup large'
              /\ popped'[2] \in small' \cup large'
          ]_vars
    /\ [](iters <= n - 1)
    /\ [](small \cap large = {})
    /\ [](Returned => (small = {} /\ large = {}))

C8_Witness ==
    /\ Returned
    /\ n >= 3
    /\ iters = n - 1

\* C9: for every n below the sentinel and every urand01 in [0, 1) the slot
\* index is floor(urand01 * n) clamped to n - 1, so it is in [0, n) and the
\* remainder y is in [0, 1).
C9_SlotIsFloor ==
    (pc = "sampled" /\ ValidPMF) =>
        LET r == call[1]
        IN  /\ r.i = (IF RatFloor(r.nx) < n THEN RatFloor(r.nx) ELSE n - 1)
            /\ r.i \in Slots
            /\ ~RatLess(r.y, <<0, 1>>) /\ RatLess(r.y, <<1, 1>>)

\* C10: for a valid PMF, whenever the pairing loop tests its condition the
\* tableProbs of the indices in the two worklists sum to the number of those
\* indices; so the loop ends with the small worklist empty and every index
\* of the large worklist at exactly 1: the small drain loop has nothing to
\* pop and the large one writes the value that is there.
C10_WorklistMass ==
    ValidPMF =>
        /\ pc = "pair" =>
              SumOver(tableProbs, small \cup large)
                = Cardinality(small \cup large) * One
        /\ pc \in {"drainSmall", "drainLarge"} =>
              /\ small = {}
              /\ \A x \in large : tableProbs[x] = One

C10_Witness ==
    /\ ValidPMF
    /\ pc = "drainLarge"
    /\ iters >= 2
    /\ Cardinality(large) >= 2

====
